---- MODULE Spec2Model ----
(***************************************************************************)
(* State-machine model of the ToDoApp resolver layer (src/src/index.js):   *)
(* the three Mongo collections, the JWT credentials handed to clients, and *)
(* one action per GraphQL operation (context creation + resolver).         *)
(***************************************************************************)
EXTENDS Integers, Sequences, FiniteSets, TLC

VARIABLES
    Users,      \* db.collection('Users'): sequence of documents, insertion order
    TaskList,   \* db.collection('TaskList')
    ToDo,       \* db.collection('ToDo')
    nextOid,    \* the driver's ObjectId generator: next _id it hands out
    now,        \* the server clock (Date.now()), in days
    tokens,     \* the tokens the server has returned to clients
    request,    \* the operation handled last: [op, cred, args]
    response,   \* its outcome: [error, data]; data is <<>> for null
    createdBy,  \* history: the _id of the user whose call created each list
    global_user,\* the implicit global `user` that getUserFromToken assigns
    calls       \* the addUserToTaskList requests in flight, by slot

vars == <<Users, TaskList, ToDo, nextOid, now, tokens, request, response,
          createdBy, global_user, calls>>

store == <<Users, TaskList, ToDo>>

(***************************************************************************)
(* Bounds of the model.                                                    *)
(***************************************************************************)
MaxOid == 14        \* ObjectIds 9 .. MaxOid are handed out, then inserts stop
MaxMembers == 3     \* longest userIds array
MaxUsers == 2       \* accounts signed up
MaxTokens == 1      \* tokens the clients keep at a time
MaxClock == 60      \* the clock stops here
TickStep == 15      \* days between two observations of the clock
MaxToDos == 2       \* to-dos in the store while their fields are edited

(***************************************************************************)
(* ObjectId and its hex string.  An ObjectId is modelled by one hex digit  *)
(* (the driver's are 24); ObjectId(string) accepts both cases of a digit,  *)
(* toString()/toHexString()/toJSON() always give the lower-case one.       *)
(***************************************************************************)
HexLower == <<"0", "1", "2", "3", "4", "5", "6", "7", "8", "9",
              "a", "b", "c", "d", "e", "f">>

HexUpper == <<"0", "1", "2", "3", "4", "5", "6", "7", "8", "9",
              "A", "B", "C", "D", "E", "F">>

Oids == 0 .. 15

\* ObjectId.isValid(id): a string of hex characters, either case
isValid(s) == \E n \in Oids : HexLower[n + 1] = s \/ HexUpper[n + 1] = s

\* ObjectId(id) for a valid string id (it throws on an invalid one)
ObjectId(s) == CHOOSE n \in Oids : HexLower[n + 1] = s \/ HexUpper[n + 1] = s

\* oid.toString()
toString(oid) == HexLower[oid + 1]

toUpperCase(s) == IF isValid(s) THEN HexUpper[ObjectId(s) + 1] ELSE s

BSONError == "Argument passed in must be a single String of 12 bytes or a string of 24 hex characters"

(***************************************************************************)
(* Sequences as collections.                                               *)
(***************************************************************************)
Range(s) == {s[i] : i \in 1 .. Len(s)}

\* a sequence without its last element
Front(s) == SubSeq(s, 1, Len(s) - 1)

\* collection.findOne({_id: oid}): <<>> (null) or <<doc>>
findOne(coll, oid) ==
    LET hits == SelectSeq(coll, LAMBDA d : d._id = oid)
    IN  IF hits = <<>> THEN <<>> ELSE <<hits[1]>>

\* collection.remove({_id: oid})
remove(coll, oid) == SelectSeq(coll, LAMBDA d : d._id # oid)

\* collection.updateOne({_id: oid}, update): the matching document is replaced
\* by update[document], the others stay
updateOne(coll, oid, update) ==
    [i \in 1 .. Len(coll) |->
        IF coll[i]._id = oid THEN update[coll[i]] ELSE coll[i]]

(***************************************************************************)
(* Passwords and tokens.                                                   *)
(***************************************************************************)
Salts == {"salt1"}

\* bcrypt.hashSync(password): a salted one-way hash
hashSync(password, salt) == [salt |-> salt, digest |-> <<salt, password>>]

\* a comparison that looks at the salt alone
compareSync_saltOnly(password, hash) == hash.digest[1] = hash.salt

\* bcrypt.compareSync(password, hash)
compareSync(password, hash) == hash.digest = <<hash.salt, password>>

JWT_SECRET == "JWT_SECRET"

ExpiresIn == 30

\* jwt.sign({ id: user._id }, JWT_SECRET, { expiresIn: '30 days' })
getToken(user) ==
    [id |-> toString(user._id), iat |-> now, exp |-> now + ExpiresIn,
     sig |-> JWT_SECRET]

\* a verification that checks the signature and not the expiry
verify_ignoreExpiration(token) ==
    IF token.sig = "" THEN "jwt malformed"
    ELSE IF token.sig # JWT_SECRET THEN "invalid signature"
    ELSE ""

\* jwt.verify(token, JWT_SECRET): "" when it passes, else the error thrown
\* a token without the three dot-separated parts has no signature (sig "")
verify(token) ==
    IF token.sig = "" THEN "jwt malformed"
    ELSE IF token.sig # JWT_SECRET THEN "invalid signature"
    ELSE IF now >= token.exp THEN "jwt expired"
    ELSE ""

\* getUserFromToken(token, db); cred is <<>> (no header) or <<token>>
getUserFromToken(cred) ==
    IF cred = <<>> THEN [error |-> "", user |-> <<>>]
    ELSE IF verify(cred[1]) # "" THEN [error |-> verify(cred[1]), user |-> <<>>]
    ELSE IF ~isValid(cred[1].id) THEN [error |-> BSONError, user |-> <<>>]
    ELSE [error |-> "", user |-> findOne(Users, ObjectId(cred[1].id))]

\* the clients keep the token just returned, dropping an older one for it
\* when they hold MaxTokens already
keep(token) ==
    IF token \in tokens \/ Cardinality(tokens) < MaxTokens
    THEN {tokens \cup {token}}
    ELSE {(tokens \ {old}) \cup {token} : old \in tokens}

\* the ApolloServer context function: { db, user }
context(cred) == getUserFromToken(cred)

\* the user of the context built for a credential: <<>> or <<user>>
identity(cred) == context(cred).user

\* the global `user` after getUserFromToken(cred): assigned the user read when
\* the token verifies (line 23), left alone when the function returns or
\* throws before
assigned(cred) ==
    IF cred # <<>> /\ verify(cred[1]) = "" /\ isValid(cred[1].id)
    THEN findOne(Users, ObjectId(cred[1].id))
    ELSE global_user

\* a request handled from its context function to its response with no step
\* of another request in between
alone(cred) ==
    /\ global_user' = assigned(cred)
    /\ calls' = calls

(***************************************************************************)
(* Responses.                                                              *)
(***************************************************************************)
AuthenticationError == "Authentication Error. Please sing in"

InvalidCredentials == "Invalid credentials!"

Conflict == "User already exists in this TaskList!"

\* the resolver threw (or the context function did): nothing is written
Throw(req, msg) ==
    /\ request' = req
    /\ alone(req.cred)
    /\ response' = [error |-> msg, data |-> <<>>]
    /\ UNCHANGED <<Users, TaskList, ToDo, nextOid, now, tokens, createdBy>>

\* a resolver that only reads returns data
Return(req, data) ==
    /\ request' = req
    /\ alone(req.cred)
    /\ response' = [error |-> "", data |-> data]
    /\ UNCHANGED <<Users, TaskList, ToDo, nextOid, now, tokens, createdBy>>

(***************************************************************************)
(* Mutation.signUp and Mutation.signIn                                     *)
(***************************************************************************)
\* a signUp served although the context function threw
signUp_anyCredential(cred, input, salt) ==
    LET req == [op |-> "signUp", cred |-> cred, args |-> input]
        user == [_id |-> nextOid, email |-> input.email, name |-> input.name,
                 password |-> hashSync(input.password, salt)]
    IN  /\ Users' = Append(Users, user)
        /\ nextOid' = nextOid + 1
        /\ tokens' \in keep(getToken(user))
        /\ request' = req
        /\ alone(req.cred)
        /\ response' = [error |-> "",
                        data |-> <<[user |-> user, token |-> getToken(user)]>>]
        /\ UNCHANGED <<TaskList, ToDo, now, createdBy>>

signUp(cred, input, salt) ==
    LET req == [op |-> "signUp", cred |-> cred, args |-> input]
        ctx == context(cred)
        user == [_id |-> nextOid, email |-> input.email, name |-> input.name,
                 password |-> hashSync(input.password, salt)]
    IN  IF ctx.error # "" THEN Throw(req, ctx.error)
        ELSE /\ Users' = Append(Users, user)
             /\ nextOid' = nextOid + 1
             /\ tokens' \in keep(getToken(user))
             /\ request' = req
             /\ alone(req.cred)
             /\ response' = [error |-> "",
                             data |-> <<[user |-> user, token |-> getToken(user)]>>]
             /\ UNCHANGED <<TaskList, ToDo, now, createdBy>>

signIn(cred, input) ==
    LET req == [op |-> "signIn", cred |-> cred, args |-> input]
        ctx == context(cred)
        found == SelectSeq(Users, LAMBDA u : u.email = input.email)
    IN  IF ctx.error # "" THEN Throw(req, ctx.error)
        ELSE IF found = <<>> THEN Throw(req, InvalidCredentials)
        ELSE IF ~compareSync(input.password, found[1].password)
             THEN Throw(req, InvalidCredentials)
        ELSE /\ tokens' \in keep(getToken(found[1]))
             /\ request' = req
             /\ alone(req.cred)
             /\ response' = [error |-> "",
                             data |-> <<[user |-> found[1], token |-> getToken(found[1])]>>]
             /\ UNCHANGED <<Users, TaskList, ToDo, nextOid, now, createdBy>>

(***************************************************************************)
(* Query                                                                   *)
(***************************************************************************)
\* a query that matches the first member (the creator) only
findByMember_first(coll, oid) ==
    SelectSeq(coll, LAMBDA l : l.userIds # <<>> /\ l.userIds[1] = oid)

\* find({ userIds: user._id }): the documents whose array holds the value
findByMember(coll, oid) ==
    SelectSeq(coll, LAMBDA l : oid \in Range(l.userIds))

myTaskLists(cred) ==
    LET req == [op |-> "myTaskLists", cred |-> cred, args |-> <<>>]
        ctx == context(cred)
    IN  IF ctx.error # "" THEN Throw(req, ctx.error)
        ELSE IF ctx.user = <<>> THEN Throw(req, AuthenticationError)
        ELSE Return(req, findByMember(TaskList, ctx.user[1]._id))

\* a getTaskList that hides a list from callers who are not members of it
getTaskList_membersOnly(cred, id) ==
    LET req == [op |-> "getTaskList", cred |-> cred, args |-> [id |-> id]]
        ctx == context(cred)
    IN  IF ctx.error # "" THEN Throw(req, ctx.error)
        ELSE IF ctx.user = <<>> THEN Throw(req, AuthenticationError)
        ELSE IF ~isValid(id) THEN Throw(req, BSONError)
        ELSE Return(req, findOne(findByMember(TaskList, ctx.user[1]._id),
                                 ObjectId(id)))

getTaskList(cred, id) ==
    LET req == [op |-> "getTaskList", cred |-> cred, args |-> [id |-> id]]
        ctx == context(cred)
    IN  IF ctx.error # "" THEN Throw(req, ctx.error)
        ELSE IF ctx.user = <<>> THEN Throw(req, AuthenticationError)
        ELSE IF ~isValid(id) THEN Throw(req, BSONError)
        ELSE Return(req, findOne(TaskList, ObjectId(id)))

(***************************************************************************)
(* Mutation: task lists                                                    *)
(***************************************************************************)
\* new Date().toISOString()
toISOString(t) == <<"ISO-8601", t>>

\* a createTaskList that enrols every account instead of the caller alone
newTaskList_everyone(title, user) ==
    [_id |-> nextOid, title |-> title, createdAt |-> toISOString(now),
     userIds |-> [i \in 1 .. Len(Users) |-> Users[i]._id]]

\* the document createTaskList inserts (insertOne gives it its _id)
newTaskList(title, user) ==
    [_id |-> nextOid, title |-> title, createdAt |-> toISOString(now),
     userIds |-> <<user._id>>]

createTaskList(cred, title) ==
    LET req == [op |-> "createTaskList", cred |-> cred, args |-> [title |-> title]]
        ctx == context(cred)
    IN  IF ctx.error # "" THEN Throw(req, ctx.error)
        ELSE IF ctx.user = <<>> THEN Throw(req, AuthenticationError)
        ELSE /\ TaskList' = Append(TaskList, newTaskList(title, ctx.user[1]))
             /\ nextOid' = nextOid + 1
             /\ createdBy' = createdBy @@ (nextOid :> ctx.user[1]._id)
             /\ request' = req
             /\ alone(req.cred)
             /\ response' = [error |-> "",
                             data |-> <<newTaskList(title, ctx.user[1])>>]
             /\ UNCHANGED <<Users, ToDo, now, tokens>>

\* an updateTaskList whose update document lacks $set: the stored document is
\* replaced by { title } and loses its members
updateTaskList_replacing(cred, id, title) ==
    LET req == [op |-> "updateTaskList", cred |-> cred,
                args |-> [id |-> id, title |-> title]]
        ctx == context(cred)
        updated == updateOne(TaskList, ObjectId(id),
                             [l \in Range(TaskList) |->
                                 [l EXCEPT !.title = title, !.userIds = <<>>]])
    IN  IF ctx.error # "" THEN Throw(req, ctx.error)
        ELSE IF ctx.user = <<>> THEN Throw(req, AuthenticationError)
        ELSE IF ~isValid(id) THEN Throw(req, BSONError)
        ELSE /\ TaskList' = updated
             /\ request' = req
             /\ alone(req.cred)
             /\ response' = [error |-> "", data |-> findOne(updated, ObjectId(id))]
             /\ UNCHANGED <<Users, ToDo, nextOid, now, tokens, createdBy>>

updateTaskList(cred, id, title) ==
    LET req == [op |-> "updateTaskList", cred |-> cred,
                args |-> [id |-> id, title |-> title]]
        ctx == context(cred)
        updated == updateOne(TaskList, ObjectId(id),
                             [l \in Range(TaskList) |-> [l EXCEPT !.title = title]])
    IN  IF ctx.error # "" THEN Throw(req, ctx.error)
        ELSE IF ctx.user = <<>> THEN Throw(req, AuthenticationError)
        ELSE IF ~isValid(id) THEN Throw(req, BSONError)
        ELSE /\ TaskList' = updated
             /\ request' = req
             /\ alone(req.cred)
             /\ response' = [error |-> "", data |-> findOne(updated, ObjectId(id))]
             /\ UNCHANGED <<Users, ToDo, nextOid, now, tokens, createdBy>>

\* taskList.userIds.find(dbId => dbId.toString() === userId.toString())
isMember(taskList, userId) ==
    \E i \in 1 .. Len(taskList.userIds) : toString(taskList.userIds[i]) = userId

\* a $set where the $push belongs: the new member replaces the others
push_replacing(taskList, oid) == [taskList EXCEPT !.userIds = <<oid>>]

\* an $addToSet where the $push is: a value the array holds is not added
push_addToSet(taskList, oid) ==
    IF oid \in Range(taskList.userIds) THEN taskList
    ELSE [taskList EXCEPT !.userIds = Append(@, oid)]

\* $push: { userIds: oid }, and taskList.userIds.push(oid)
push(taskList, oid) == [taskList EXCEPT !.userIds = Append(@, oid)]

\* an addUserToTaskList without the test of the list read: a missing list
\* makes taskList.userIds throw
addUserToTaskList_unchecked(cred, taskListId, userId) ==
    LET req == [op |-> "addUserToTaskList", cred |-> cred,
                args |-> [taskListId |-> taskListId, userId |-> userId]]
        ctx == context(cred)
        taskList == findOne(TaskList, ObjectId(taskListId))
    IN  IF ctx.error # "" THEN Throw(req, ctx.error)
        ELSE IF ctx.user = <<>> THEN Throw(req, AuthenticationError)
        ELSE IF ~isValid(taskListId) THEN Throw(req, BSONError)
        ELSE IF taskList = <<>>
             THEN Throw(req, "Cannot read property 'userIds' of null")
        ELSE IF isMember(taskList[1], userId) THEN Throw(req, Conflict)
        ELSE IF ~isValid(userId) THEN Throw(req, BSONError)
        ELSE /\ TaskList' = updateOne(TaskList, ObjectId(taskListId),
                                      [l \in Range(TaskList) |->
                                          push(l, ObjectId(userId))])
             /\ request' = req
             /\ alone(req.cred)
             /\ response' = [error |-> "",
                             data |-> <<push(taskList[1], ObjectId(userId))>>]
             /\ UNCHANGED <<Users, ToDo, nextOid, now, tokens, createdBy>>

addUserToTaskList(cred, taskListId, userId) ==
    LET req == [op |-> "addUserToTaskList", cred |-> cred,
                args |-> [taskListId |-> taskListId, userId |-> userId]]
        ctx == context(cred)
        taskList == findOne(TaskList, ObjectId(taskListId))
    IN  IF ctx.error # "" THEN Throw(req, ctx.error)
        ELSE IF ctx.user = <<>> THEN Throw(req, AuthenticationError)
        ELSE IF ~isValid(taskListId) THEN Throw(req, BSONError)
        ELSE IF taskList = <<>> THEN Return(req, <<>>)
        ELSE IF isMember(taskList[1], userId) THEN Throw(req, Conflict)
        ELSE IF ~isValid(userId) THEN Throw(req, BSONError)
        ELSE /\ TaskList' = updateOne(TaskList, ObjectId(taskListId),
                                      [l \in Range(TaskList) |->
                                          push(l, ObjectId(userId))])
             /\ request' = req
             /\ alone(req.cred)
             /\ response' = [error |-> "",
                             data |-> <<push(taskList[1], ObjectId(userId))>>]
             /\ UNCHANGED <<Users, ToDo, nextOid, now, tokens, createdBy>>

\* a deleteTaskList that also removes the list's to-dos
deleteTaskList_cascade(cred, id) ==
    LET req == [op |-> "deleteTaskList", cred |-> cred, args |-> [id |-> id]]
        ctx == context(cred)
    IN  IF ctx.error # "" THEN Throw(req, ctx.error)
        ELSE IF ctx.user = <<>> THEN Throw(req, AuthenticationError)
        ELSE IF ~isValid(id) THEN Throw(req, BSONError)
        ELSE /\ TaskList' = remove(TaskList, ObjectId(id))
             /\ ToDo' = SelectSeq(ToDo, LAMBDA t : t.taskListId # ObjectId(id))
             /\ request' = req
             /\ alone(req.cred)
             /\ response' = [error |-> "", data |-> <<TRUE>>]
             /\ UNCHANGED <<Users, nextOid, now, tokens, createdBy>>

deleteTaskList(cred, id) ==
    LET req == [op |-> "deleteTaskList", cred |-> cred, args |-> [id |-> id]]
        ctx == context(cred)
    IN  IF ctx.error # "" THEN Throw(req, ctx.error)
        ELSE IF ctx.user = <<>> THEN Throw(req, AuthenticationError)
        ELSE IF ~isValid(id) THEN Throw(req, BSONError)
        ELSE /\ TaskList' = remove(TaskList, ObjectId(id))
             /\ request' = req
             /\ alone(req.cred)
             /\ response' = [error |-> "", data |-> <<TRUE>>]
             /\ UNCHANGED <<Users, ToDo, nextOid, now, tokens, createdBy>>

(***************************************************************************)
(* Mutation: to-dos.  A document's content is <<>> (null) or <<string>>;   *)
(* its id field (set by updateToDo's $set: data) is <<>> while absent.     *)
(***************************************************************************)
createToDo(cred, content, taskListId) ==
    LET req == [op |-> "createToDo", cred |-> cred,
                args |-> [content |-> content, taskListId |-> taskListId]]
        ctx == context(cred)
        newToDo == [_id |-> nextOid, content |-> <<content>>,
                    taskListId |-> ObjectId(taskListId), isCompleted |-> FALSE,
                    id |-> <<>>]
    IN  IF ctx.error # "" THEN Throw(req, ctx.error)
        ELSE IF ctx.user = <<>> THEN Throw(req, AuthenticationError)
        ELSE IF ~isValid(taskListId) THEN Throw(req, BSONError)
        ELSE /\ ToDo' = Append(ToDo, newToDo)
             /\ nextOid' = nextOid + 1
             /\ request' = req
             /\ alone(req.cred)
             /\ response' = [error |-> "", data |-> <<newToDo>>]
             /\ UNCHANGED <<Users, TaskList, now, tokens, createdBy>>

\* a $set built from named fields: a content left out is stored as null
setData_contentAlways(todo, data) ==
    [todo EXCEPT !.id = <<data.id>>,
                 !.content = data.content.value,
                 !.isCompleted = data.isCompleted]

\* $set: data, where data = { id, content (when given), isCompleted }
setData(todo, data) ==
    [todo EXCEPT !.id = <<data.id>>,
                 !.content = IF data.content.given THEN data.content.value ELSE @,
                 !.isCompleted = data.isCompleted]

updateToDo(cred, data) ==
    LET req == [op |-> "updateToDo", cred |-> cred, args |-> data]
        ctx == context(cred)
        updated == updateOne(ToDo, ObjectId(data.id),
                             [t \in Range(ToDo) |-> setData(t, data)])
    IN  IF ctx.error # "" THEN Throw(req, ctx.error)
        ELSE IF ctx.user = <<>> THEN Throw(req, AuthenticationError)
        ELSE IF ~isValid(data.id) THEN Throw(req, BSONError)
        ELSE /\ ToDo' = updated
             /\ request' = req
             /\ alone(req.cred)
             /\ response' = [error |-> "", data |-> findOne(updated, ObjectId(data.id))]
             /\ UNCHANGED <<Users, TaskList, nextOid, now, tokens, createdBy>>

\* a deleteToDo without the check of the caller
deleteToDo_unguarded(cred, id) ==
    LET req == [op |-> "deleteToDo", cred |-> cred, args |-> [id |-> id]]
        ctx == context(cred)
    IN  IF ctx.error # "" THEN Throw(req, ctx.error)
        ELSE IF ~isValid(id) THEN Throw(req, BSONError)
        ELSE /\ ToDo' = remove(ToDo, ObjectId(id))
             /\ request' = req
             /\ alone(req.cred)
             /\ response' = [error |-> "", data |-> <<TRUE>>]
             /\ UNCHANGED <<Users, TaskList, nextOid, now, tokens, createdBy>>

\* a deleteToDo that reports whether a document was removed
deleteToDo_reportsCount(cred, id) ==
    LET req == [op |-> "deleteToDo", cred |-> cred, args |-> [id |-> id]]
        ctx == context(cred)
    IN  IF ctx.error # "" THEN Throw(req, ctx.error)
        ELSE IF ctx.user = <<>> THEN Throw(req, AuthenticationError)
        ELSE IF ~isValid(id) THEN Throw(req, BSONError)
        ELSE /\ ToDo' = remove(ToDo, ObjectId(id))
             /\ request' = req
             /\ alone(req.cred)
             /\ response' = [error |-> "",
                             data |-> <<findOne(ToDo, ObjectId(id)) # <<>> >>]
             /\ UNCHANGED <<Users, TaskList, nextOid, now, tokens, createdBy>>

deleteToDo(cred, id) ==
    LET req == [op |-> "deleteToDo", cred |-> cred, args |-> [id |-> id]]
        ctx == context(cred)
    IN  IF ctx.error # "" THEN Throw(req, ctx.error)
        ELSE IF ctx.user = <<>> THEN Throw(req, AuthenticationError)
        ELSE IF ~isValid(id) THEN Throw(req, BSONError)
        ELSE /\ ToDo' = remove(ToDo, ObjectId(id))
             /\ request' = req
             /\ alone(req.cred)
             /\ response' = [error |-> "", data |-> <<TRUE>>]
             /\ UNCHANGED <<Users, TaskList, nextOid, now, tokens, createdBy>>

(***************************************************************************)
(* Field resolvers.  progress is the pair <<numerator, denominator>> of    *)
(* the quotient 100 * completed.length / todos.length (<<0, 1>> for 0).    *)
(***************************************************************************)
\* db.collection('ToDo').find({ taskListId: ObjectId(_id) }).toArray()
todos(taskList) == SelectSeq(ToDo, LAMBDA t : t.taskListId = taskList._id)

\* a progress rounded down to a whole percentage
progress_floor(taskList) ==
    LET completed == SelectSeq(todos(taskList), LAMBDA t : t.isCompleted)
    IN  IF Len(todos(taskList)) = 0 THEN <<0, 1>>
        ELSE <<(100 * Len(completed)) \div Len(todos(taskList)), 1>>

progress(taskList) ==
    LET completed == SelectSeq(todos(taskList), LAMBDA t : t.isCompleted)
    IN  IF Len(todos(taskList)) = 0 THEN <<0, 1>>
        ELSE <<100 * Len(completed), Len(todos(taskList))>>

\* TaskList.users: each member resolved on its own, <<>> for a missing user
users(taskList) ==
    [i \in 1 .. Len(taskList.userIds) |-> findOne(Users, taskList.userIds[i])]

\* ToDo.taskList
taskList(todo) == findOne(TaskList, todo.taskListId)

(***************************************************************************)
(* The clock                                                               *)
(***************************************************************************)
Tick ==
    /\ now + TickStep <= MaxClock
    /\ now' = now + TickStep
    /\ UNCHANGED <<Users, TaskList, ToDo, nextOid, tokens, request, response,
                   createdBy, global_user, calls>>

(***************************************************************************)
(* Inputs                                                                  *)
(***************************************************************************)
Accounts == <<"ann@x", "bob@x">>

Emails == Range(Accounts)

Passwords == {"pw1", "pw2"}

SignUpInputs == [email : Emails, password : Passwords, name : {"name"}]

SignInInputs == [email : Emails, password : Passwords]

\* a token the server never signed
ForgedToken == [id |-> "9", iat |-> 0, exp |-> ExpiresIn, sig |-> "forged"]

\* a header that is no JSON web token
MalformedToken == [id |-> "", iat |-> 0, exp |-> 0, sig |-> ""]

\* the credentials of signed-in clients
Held == {<<t>> : t \in tokens}

\* two requests are in flight at a time: their slots, and a slot with no
\* request in it
Slots == {1, 2}

Free == [pc |-> "free", cred |-> <<>>,
         args |-> [taskListId |-> "", userId |-> ""],
         found |-> <<>>, user |-> <<>>, taskList |-> <<>>]

Init ==
    /\ global_user = <<>>
    /\ calls = [c \in Slots |-> Free]
    /\ Users = <<>>
    /\ TaskList = <<>>
    /\ ToDo = <<>>
    /\ nextOid = 9
    /\ now = 0
    /\ tokens = {}
    /\ request = [op |-> "none", cred |-> <<>>, args |-> <<>>]
    /\ response = [error |-> "", data |-> <<>>]
    /\ createdBy = <<>>

\* the credentials a client sends with a sign-up or sign-in: none, or a
\* token it holds (which may have expired)
Creds == {<<>>} \cup Held

(***************************************************************************)
(* SpecAuth: accounts, sign-in and the passing of time.                    *)
(***************************************************************************)
NextAuth ==
    \/ /\ Len(Users) < MaxUsers
       /\ \E cred \in Creds, input \in SignUpInputs, salt \in Salts :
             signUp(cred, input, salt)
    \/ \E cred \in Creds, input \in SignInInputs : signIn(cred, input)
    \/ Tick

SpecAuth == Init /\ [][NextAuth]_vars

Titles == {"home", "work"}

Contents == {"milk", "eggs"}

\* the hex strings of the _ids of a collection's documents
IdsOf(coll) == {toString(d._id) : d \in Range(coll)}

\* a well-formed id no document has, and a string that is no ObjectId
NoSuchId == "0"

NotAnId == "zz"

\* id strings a client sends for a collection: the ids of its documents and
\* a well-formed id of no document
IdArgs(coll) == IdsOf(coll) \cup {NoSuchId}

\* the ids of a collection's documents in either spelling
IdArgsAnyCase(coll) == IdsOf(coll) \cup {toUpperCase(id) : id \in IdsOf(coll)}

\* sign-up and sign-in inputs of clients that register one after the other,
\* each address once, and remember their password
FirstSignUps == {[email |-> Accounts[i], password |-> "pw1", name |-> "name"] :
                    i \in {Len(Users) + 1} \cap DOMAIN Accounts}

GoodSignIns == {[email |-> u.email, password |-> "pw1"] : u \in Range(Users)}

\* the caller's credential resolves to a user whose calls created no list yet
hasNoList(cred) ==
    /\ identity(cred) # <<>>
    /\ \A id \in DOMAIN createdBy : createdBy[id] # identity(cred)[1]._id

(***************************************************************************)
(* SpecLists: signed-in clients working on task lists and their members;   *)
(* every account creates one list at most, and one to-do is put on the     *)
(* first of two lists.                                                     *)
(***************************************************************************)
NextLists ==
    \/ \E input \in FirstSignUps, salt \in Salts : signUp(<<>>, input, salt)
    \/ \E input \in GoodSignIns : signIn(<<>>, input)
    \/ \E cred \in Held : myTaskLists(cred)
    \/ \E cred \in Held, id \in IdArgs(TaskList) : getTaskList(cred, id)
    \/ \E cred \in Held, title \in Titles :
          hasNoList(cred) /\ createTaskList(cred, title)
    \/ \E cred \in Held, id \in IdArgs(TaskList), title \in Titles :
          updateTaskList(cred, id, title)
    \/ \E cred \in Held, taskListId \in IdArgs(TaskList),
          userId \in IdArgsAnyCase(Users) :
          /\ \A l \in Range(TaskList) : Len(l.userIds) < MaxMembers
          /\ addUserToTaskList(cred, taskListId, userId)
    \/ \E cred \in Held, id \in IdArgs(TaskList) : deleteTaskList(cred, id)
    \/ /\ ToDo = <<>> /\ Len(TaskList) = 2
       /\ \E cred \in Held :
             createToDo(cred, "milk", toString(TaskList[1]._id))

SpecLists == Init /\ [][NextLists]_vars

\* the ids createTaskList has returned, those of lists deleted since included
KnownLists == {toString(id) : id \in DOMAIN createdBy}

\* updateToDo inputs that leave the content out
FlagUpdates == {[id |-> id, content |-> [given |-> FALSE, value |-> <<>>],
                 isCompleted |-> b] : id \in IdsOf(ToDo), b \in BOOLEAN}

\* the id of the call handled last, when it was a call of op: what a client
\* sends when it repeats the call
Repeated(op) == IF request.op = op THEN {request.args.id} ELSE {}

(***************************************************************************)
(* SpecToDos: one signed-in client, its list and the to-dos under it.      *)
(***************************************************************************)
NextToDos ==
    \/ /\ Users = <<>>
       /\ \E input \in FirstSignUps, salt \in Salts : signUp(<<>>, input, salt)
    \/ /\ nextOid <= MaxOid
       /\ \E cred \in Held, title \in {"home"} :
             hasNoList(cred) /\ createTaskList(cred, title)
    \/ \E cred \in Held, id \in KnownLists : deleteTaskList(cred, id)
    \/ /\ nextOid <= MaxOid
       /\ \E cred \in Held, content \in {"milk"}, taskListId \in KnownLists :
             createToDo(cred, content, taskListId)
    \/ \E cred \in Held, data \in FlagUpdates : updateToDo(cred, data)
    \/ \E cred \in Held, id \in IdArgs(ToDo) \cup Repeated("deleteToDo") :
          deleteToDo(cred, id)

SpecToDos == Init /\ [][NextToDos]_vars

\* what a client may send for an id of a collection's documents
AnyIdArgs(coll) == IdArgs(coll) \cup {NotAnId}

\* updateToDo's optional content: left out, null, or a string
ContentArgs == {[given |-> FALSE, value |-> <<>>], [given |-> TRUE, value |-> <<>>]}
                  \cup {[given |-> TRUE, value |-> <<c>>] : c \in Contents}

AnyUpdateToDoArgs == [id : AnyIdArgs(ToDo), content : ContentArgs,
                      isCompleted : BOOLEAN]

\* what a signed-in client sends to updateToDo
UpdateToDoArgs == [id : IdArgs(ToDo), content : ContentArgs, isCompleted : BOOLEAN]

(***************************************************************************)
(* SpecEdits: one signed-in client editing the fields of a few to-dos.     *)
(***************************************************************************)
NextEdits ==
    \/ /\ Users = <<>>
       /\ \E input \in FirstSignUps, salt \in Salts : signUp(<<>>, input, salt)
    \/ \E cred \in Held : hasNoList(cred) /\ createTaskList(cred, "home")
    \/ /\ Len(ToDo) < MaxToDos
       /\ \E cred \in Held, taskListId \in KnownLists :
             createToDo(cred, "milk", taskListId)
    \/ \E cred \in Held, data \in UpdateToDoArgs : updateToDo(cred, data)

SpecEdits == Init /\ [][NextEdits]_vars

(***************************************************************************)
(* addUserToTaskList served in steps.  A request runs from one await to    *)
(* the next without interruption; at an await the store executes the       *)
(* operation awaited at some later moment, and steps of other requests     *)
(* come in between.  calls[c].pc names the await the request c stands at.  *)
(***************************************************************************)
\* the request in slot c is over: the client has its response and the slot
\* is free again
finish(c, call, error, data) ==
    /\ calls' = [calls EXCEPT ![c] = Free]
    /\ request' = [op |-> "addUserToTaskList", cred |-> call.cred,
                   args |-> call.args]
    /\ response' = [error |-> error, data |-> data]

\* lines 185-188, after the context is built: the resolver up to its first
\* await
resolverStart(c, call, ctxUser) ==
    IF ctxUser = <<>>
    THEN finish(c, call, AuthenticationError, <<>>)
    ELSE IF ~isValid(call.args.taskListId)
    THEN finish(c, call, BSONError, <<>>)
    ELSE /\ calls' = [calls EXCEPT ![c] = [call EXCEPT !.user = ctxUser,
                                                       !.pc = "findOne TaskList"]]
         /\ UNCHANGED <<request, response>>

\* a request arrives: the context function calls getUserFromToken, which
\* returns null (no token: the context has no user and the resolver throws),
\* throws (jwt.verify), or awaits the read of the user (lines 300-301, 15-23)
receive(c, cred, taskListId, userId) ==
    LET call == [Free EXCEPT !.cred = cred,
                             !.args = [taskListId |-> taskListId,
                                       userId |-> userId]]
    IN  /\ calls[c].pc = "free"
        /\ IF cred = <<>> THEN resolverStart(c, call, <<>>)
           ELSE IF verify(cred[1]) # ""
           THEN finish(c, call, verify(cred[1]), <<>>)
           ELSE /\ calls' = [calls EXCEPT ![c] =
                                [call EXCEPT !.pc = "findOne Users"]]
                /\ UNCHANGED <<request, response>>
        /\ UNCHANGED <<store, nextOid, now, tokens, createdBy, global_user>>

\* the store answers db.collection('Users').findOne (line 23)
awaitFindOneUser(c) ==
    /\ calls[c].pc = "findOne Users"
    /\ calls' = [calls EXCEPT
                    ![c].found = findOne(Users, ObjectId(calls[c].cred[1].id)),
                    ![c].pc = "user ="]
    /\ UNCHANGED <<store, nextOid, now, tokens, createdBy, global_user,
                   request, response>>

\* getUserFromToken resumes: `user = <the user read>; return user` assigns
\* the global and returns what the global holds (lines 23-24); the context
\* is built from the value returned and the resolver starts (301-305)
assignUser(c) ==
    /\ calls[c].pc = "user ="
    /\ global_user' = calls[c].found
    /\ resolverStart(c, calls[c], global_user')
    /\ UNCHANGED <<store, nextOid, now, tokens, createdBy>>

\* the store answers db.collection('TaskList').findOne (line 188) and the
\* resolver runs to its next await or to its end (lines 190-206)
awaitFindOneTaskList(c) ==
    LET listRead == findOne(TaskList, ObjectId(calls[c].args.taskListId))
    IN  /\ calls[c].pc = "findOne TaskList"
        /\ IF listRead = <<>> THEN finish(c, calls[c], "", <<>>)
           ELSE IF isMember(listRead[1], calls[c].args.userId)
                THEN finish(c, calls[c], Conflict, <<>>)
           ELSE IF ~isValid(calls[c].args.userId)
                THEN finish(c, calls[c], BSONError, <<>>)
           ELSE /\ calls' = [calls EXCEPT ![c].taskList = listRead,
                                          ![c].pc = "updateOne"]
                /\ UNCHANGED <<request, response>>
        /\ UNCHANGED <<store, nextOid, now, tokens, createdBy, global_user>>

\* the store executes updateOne with $push (lines 199-206)
awaitUpdateOne(c) ==
    /\ calls[c].pc = "updateOne"
    /\ TaskList' = updateOne(TaskList, ObjectId(calls[c].args.taskListId),
                             [l \in Range(TaskList) |->
                                 push(l, ObjectId(calls[c].args.userId))])
    /\ calls' = [calls EXCEPT ![c].pc = "return"]
    /\ UNCHANGED <<Users, ToDo, nextOid, now, tokens, createdBy, global_user,
                   request, response>>

\* the resolver resumes: taskList.userIds.push(...); return taskList
\* (lines 207-208)
returnTaskList(c) ==
    /\ calls[c].pc = "return"
    /\ finish(c, calls[c], "", <<push(calls[c].taskList[1],
                                      ObjectId(calls[c].args.userId))>>)
    /\ UNCHANGED <<store, nextOid, now, tokens, createdBy, global_user>>

(***************************************************************************)
(* SpecConcurrent: two clients and a list; addUserToTaskList requests are  *)
(* served in steps (each takes the first free slot), interleaved with each *)
(* other and with updates and the delete of the list.                      *)
(***************************************************************************)
NextConcurrent ==
    \/ \E input \in FirstSignUps, salt \in Salts : signUp(<<>>, input, salt)
    \/ \E input \in GoodSignIns : signIn(<<>>, input)
    \/ /\ createdBy = <<>>
       /\ \E cred \in Held : createTaskList(cred, "home")
    \/ \E cred \in Held, id \in IdsOf(TaskList) : updateTaskList(cred, id, "work")
    \/ \E cred \in Held, id \in IdsOf(TaskList) : deleteTaskList(cred, id)
    \/ \E c \in Slots, cred \in {<<>>} \cup Held,
          taskListId \in IdsOf(TaskList), userId \in IdsOf(Users) :
          /\ \A b \in Slots : b < c => calls[b].pc # "free"
          /\ \A l \in Range(TaskList) : Len(l.userIds) < MaxMembers
          /\ receive(c, cred, taskListId, userId)
    \/ \E c \in Slots : awaitFindOneUser(c)
    \/ \E c \in Slots : assignUser(c)
    \/ \E c \in Slots : awaitFindOneTaskList(c)
    \/ \E c \in Slots : awaitUpdateOne(c)
    \/ \E c \in Slots : returnTaskList(c)

SpecConcurrent == Init /\ [][NextConcurrent]_vars

\* the credentials that fail verification now: a forged one, a malformed
\* one, and the expired ones among those the clients hold
Rejected == {cred \in {<<ForgedToken>>, <<MalformedToken>>} \cup Held :
                context(cred).error # ""}

\* the credentials that verify to no user: none at all, and the rejected ones
Unverified == {<<>>} \cup Rejected

(***************************************************************************)
(* SpecCredentials: clients fill the store while their tokens age; every   *)
(* operation is called with no credential and with credentials that fail   *)
(* verification.                                                           *)
(***************************************************************************)
NextCredentials ==
    \/ /\ Users = <<>>
       /\ \E input \in FirstSignUps, salt \in Salts : signUp(<<>>, input, salt)
    \/ \E input \in GoodSignIns : signIn(<<>>, input)
    \/ \E cred \in Held : hasNoList(cred) /\ createTaskList(cred, "home")
    \/ /\ ToDo = <<>>
       /\ \E cred \in Held, taskListId \in KnownLists :
             createToDo(cred, "milk", taskListId)
    \/ Tick
    \/ /\ Len(Users) < MaxUsers
       /\ \E cred \in Rejected, input \in FirstSignUps, salt \in Salts :
             signUp(cred, input, salt)
    \/ \E cred \in Rejected, input \in GoodSignIns : signIn(cred, input)
    \/ \E cred \in Unverified : myTaskLists(cred)
    \/ \E cred \in Unverified, id \in IdArgs(TaskList) : getTaskList(cred, id)
    \/ \E cred \in Unverified : createTaskList(cred, "work")
    \/ \E cred \in Unverified, id \in IdArgs(TaskList) :
          updateTaskList(cred, id, "work")
    \/ \E cred \in Unverified, taskListId \in IdArgs(TaskList),
          userId \in IdsOf(Users) : addUserToTaskList(cred, taskListId, userId)
    \/ \E cred \in Unverified, id \in IdArgs(TaskList) : deleteTaskList(cred, id)
    \/ \E cred \in Unverified, taskListId \in IdArgs(TaskList) :
          createToDo(cred, "eggs", taskListId)
    \/ \E cred \in Unverified, data \in UpdateToDoArgs : updateToDo(cred, data)
    \/ \E cred \in Unverified, id \in IdArgs(ToDo) : deleteToDo(cred, id)

SpecCredentials == Init /\ [][NextCredentials]_vars

(***************************************************************************)
(* SpecAnonymous: a signed-in client fills the store; every protected      *)
(* operation is called without a credential.                               *)
(***************************************************************************)
NextAnonymous ==
    \/ /\ Users = <<>>
       /\ \E input \in FirstSignUps, salt \in Salts : signUp(<<>>, input, salt)
    \/ /\ nextOid <= MaxOid
       /\ \E cred \in Held : hasNoList(cred) /\ createTaskList(cred, "home")
    \/ /\ nextOid <= MaxOid
       /\ \E cred \in Held, taskListId \in KnownLists :
             createToDo(cred, "milk", taskListId)
    \/ myTaskLists(<<>>)
    \/ \E id \in AnyIdArgs(TaskList) : getTaskList(<<>>, id)
    \/ \E title \in Titles : createTaskList(<<>>, title)
    \/ \E id \in AnyIdArgs(TaskList), title \in Titles :
          updateTaskList(<<>>, id, title)
    \/ \E taskListId \in AnyIdArgs(TaskList), userId \in AnyIdArgs(Users) :
          addUserToTaskList(<<>>, taskListId, userId)
    \/ \E id \in AnyIdArgs(TaskList) : deleteTaskList(<<>>, id)
    \/ \E content \in Contents, taskListId \in AnyIdArgs(TaskList) :
          createToDo(<<>>, content, taskListId)
    \/ \E data \in AnyUpdateToDoArgs : updateToDo(<<>>, data)
    \/ \E id \in AnyIdArgs(ToDo) : deleteToDo(<<>>, id)

SpecAnonymous == Init /\ [][NextAnonymous]_vars

(***************************************************************************)
(* Properties of the task-list operations (checked under SpecLists).       *)
(***************************************************************************)
\* the last operation was op and it returned without an error
returned(op) == request.op = op /\ response.error = ""

\* C2: when addUserToTaskList is called twice in a row with the same
\* (taskListId, userId) on a stored list the user is not yet a member of, the
\* first call succeeds and appends the user, the second fails with Conflict
\* and leaves the stored lists as they are.
C2_SecondAddConflicts ==
    [][ /\ request'.op = "addUserToTaskList"
        /\ isValid(request'.args.taskListId) /\ isValid(request'.args.userId)
        /\ findOne(TaskList, ObjectId(request'.args.taskListId)) # <<>>
        => LET before == findOne(TaskList, ObjectId(request'.args.taskListId))[1]
               after == findOne(TaskList', ObjectId(request'.args.taskListId))
               userOid == ObjectId(request'.args.userId)
           IN  /\ userOid \notin Range(before.userIds)
                  => /\ response'.error = ""
                     /\ after = <<push(before, userOid)>>
               /\ (/\ request.op = "addUserToTaskList" /\ response.error = ""
                   /\ response.data # <<>> /\ request.args = request'.args
                   /\ userOid \notin Range(Front(response.data[1].userIds)))
                  => /\ response'.error = Conflict
                     /\ TaskList' = TaskList
      ]_vars

\* C4: a createTaskList that returns has stored a list whose _id no other
\* stored list has and whose only member is the calling identity; so lists
\* created by two identities are two lists with one member each.
C4_CreateTaskList ==
    returned("createTaskList") =>
        LET new == response.data[1]
        IN  /\ \E i \in 1 .. Len(TaskList) :
                  /\ TaskList[i] = new
                  /\ \A j \in 1 .. Len(TaskList) :
                        j # i => TaskList[j]._id # new._id
            /\ identity(request.cred) # <<>>
            /\ new.userIds = <<identity(request.cred)[1]._id>>

C4_Witness ==
    /\ returned("createTaskList")
    /\ \E l \in Range(TaskList) :
          /\ Len(l.userIds) = 1
          /\ l.userIds # response.data[1].userIds
          /\ l.userIds = <<createdBy[l._id]>>

\* C8: myTaskLists returns exactly the stored lists whose member array holds
\* the caller's _id.
C8_MyTaskLists ==
    returned("myTaskLists") =>
        LET u == identity(request.cred)[1]._id
            mine == {l \in Range(TaskList) :
                        \E k \in 1 .. Len(l.userIds) : l.userIds[k] = u}
        IN  Range(response.data) = mine

C8_Witness ==
    /\ returned("myTaskLists")
    /\ Len(response.data) = 2
    /\ \E l \in Range(response.data) : createdBy[l._id] # identity(request.cred)[1]._id
    /\ \E l \in Range(response.data) : l.title = "work"

\* C9: every stored list has a member, and its creator is among its members.
C9_CreatorStaysMember ==
    \A l \in Range(TaskList) :
        /\ l.userIds # <<>>
        /\ createdBy[l._id] \in Range(l.userIds)

C9_Witness ==
    /\ returned("updateTaskList")
    /\ \E l \in Range(TaskList) :
          /\ Len(l.userIds) = 3
          /\ l.userIds[1] # l.userIds[2]
    /\ \E id \in DOMAIN createdBy : findOne(TaskList, id) = <<>>

(***************************************************************************)
(* Properties of sign-in and of tokens (checked under SpecAuth).           *)
(***************************************************************************)
\* C6: the token a signIn or signUp returned resolves to the user it was
\* returned with at every time before iat + 30 days, and fails verification
\* at every time after.
C6_TokenValidity ==
    (returned("signIn") \/ returned("signUp")) =>
        LET user == response.data[1].user
            token == response.data[1].token
        IN  /\ now < token.iat + 30
               => getUserFromToken(<<token>>) = [error |-> "", user |-> <<user>>]
            /\ now > token.iat + 30
               => getUserFromToken(<<token>>).error # ""

C6_Witness ==
    /\ returned("signIn")
    /\ Len(Users) = 2
    /\ response.data[1].user = Users[2]
    /\ response.data[1].token.iat > 0
    /\ now > response.data[1].token.iat + 30

\* C7: a signIn whose e-mail no stored user has, or whose password is not the
\* one the stored hash of the user found by that e-mail was made from, fails
\* with InvalidCredentials, returns no token and changes no collection.
C7_SignInRejects ==
    [][ /\ request'.op = "signIn"
        /\ getUserFromToken(request'.cred).error = ""
        /\ LET found == SelectSeq(Users, LAMBDA u : u.email = request'.args.email)
           IN  \/ found = <<>>
               \/ found[1].password
                     # hashSync(request'.args.password, found[1].password.salt)
        => /\ response' = [error |-> InvalidCredentials, data |-> <<>>]
           /\ tokens' = tokens
           /\ UNCHANGED store
      ]_vars

C7_Witness ==
    /\ request.op = "signIn"
    /\ response.error = InvalidCredentials
    /\ \E u \in Range(Users) : u.email = request.args.email
    /\ tokens # {}

(***************************************************************************)
(* Properties of the protected operations (checked under SpecAnonymous).   *)
(***************************************************************************)
ProtectedOps == {"myTaskLists", "getTaskList", "createTaskList",
                 "updateTaskList", "addUserToTaskList", "deleteTaskList",
                 "createToDo", "updateToDo", "deleteToDo"}

\* C1: a protected operation called with no identity fails with the
\* authentication error, whatever its arguments, and leaves the Users,
\* TaskList and ToDo collections as they were.
C1_AuthenticationRequired ==
    [][ /\ request'.op \in ProtectedOps
        /\ getUserFromToken(request'.cred) = [error |-> "", user |-> <<>>]
        => /\ response' = [error |-> AuthenticationError, data |-> <<>>]
           /\ UNCHANGED store
      ]_vars

C1_Witness ==
    /\ request.op = "deleteToDo"
    /\ request.cred = <<>>
    /\ response.error = AuthenticationError
    /\ request.args.id \in IdsOf(ToDo)
    /\ TaskList # <<>>

(***************************************************************************)
(* Properties of to-dos and progress (checked under SpecToDos).            *)
(***************************************************************************)
\* C3: progress of a stored list is 0 when no to-do references it, and else
\* the exact quotient 100 * (to-dos referencing it that are completed) /
\* (to-dos referencing it), which lies in [0, 100]; 1 of 4 completed is 25.
C3_Progress ==
    \A l \in Range(TaskList) :
        LET refs == {i \in 1 .. Len(ToDo) : ToDo[i].taskListId = l._id}
            done == {i \in refs : ToDo[i].isCompleted = TRUE}
            p == progress(l)
        IN  /\ p[2] > 0
            /\ refs = {} => p[1] = 0
            /\ refs # {} => p[1] * Cardinality(refs) = 100 * Cardinality(done) * p[2]
            /\ 0 <= p[1] /\ p[1] <= 100 * p[2]
            /\ (Cardinality(refs) = 4 /\ Cardinality(done) = 1) => p[1] = 25 * p[2]

C3_Witness ==
    \E l \in Range(TaskList) :
        /\ Len(todos(l)) = 4
        /\ Len(SelectSeq(todos(l), LAMBDA t : t.isCompleted)) = 1
        /\ progress(l) = <<100, 4>>

\* C5: deleteTaskList(id) removes the list and nothing else: the to-dos, those
\* referencing id among them, stay as they were, and for each of those
\* ToDo.taskList resolves to nothing afterwards.
C5_DeleteOrphans ==
    [][ (request'.op = "deleteTaskList" /\ response'.error = "")
        => /\ ToDo' = ToDo
           /\ Users' = Users
           /\ TaskList' = SelectSeq(TaskList,
                             LAMBDA l : toString(l._id) # request'.args.id)
           /\ \A i \in 1 .. Len(ToDo) :
                 toString(ToDo[i].taskListId) = request'.args.id
                    => taskList(ToDo[i])' = <<>>
      ]_vars

C5_Witness ==
    /\ returned("deleteTaskList")
    /\ \E t \in Range(ToDo) :
          /\ toString(t.taskListId) = request.args.id
          /\ t.isCompleted
    /\ TaskList = <<>>

\* C10: the list a to-do references was in the store when createToDo created
\* the to-do.
C10_ListExistedAtCreation ==
    returned("createToDo") => taskList(response.data[1]) # <<>>

(***************************************************************************)
(* Properties of reads and updates of lists (checked under SpecLists).     *)
(***************************************************************************)
\* the credential of the request being handled resolves to a user
callerIsUser == identity(request'.cred) # <<>>

\* C11: getTaskList(id) called by an authenticated identity returns the stored
\* list with that id when there is one, member or not, and null when there is
\* none.
C11_GetTaskList ==
    [][ /\ request'.op = "getTaskList"
        /\ callerIsUser
        /\ isValid(request'.args.id)
        => /\ response'.error = ""
           /\ \A l \in Range(TaskList) :
                 toString(l._id) = request'.args.id => response'.data = <<l>>
           /\ request'.args.id \notin IdsOf(TaskList) => response'.data = <<>>
      ]_vars

C11_Witness ==
    /\ returned("getTaskList")
    /\ response.data # <<>>
    /\ identity(request.cred)[1]._id \notin Range(response.data[1].userIds)
    /\ response.data[1].title = "work"

\* C18: addUserToTaskList with a taskListId no stored list has returns null
\* and no error, and leaves the collections as they were (no list is made).
C18_AddToMissingList ==
    [][ /\ request'.op = "addUserToTaskList"
        /\ callerIsUser
        /\ isValid(request'.args.taskListId)
        /\ \A l \in Range(TaskList) : l._id # ObjectId(request'.args.taskListId)
        => /\ response' = [error |-> "", data |-> <<>>]
           /\ UNCHANGED store
      ]_vars

C18_Witness ==
    /\ returned("addUserToTaskList")
    /\ response.data = <<>>
    /\ request.args.taskListId \notin IdsOf(TaskList)
    /\ request.args.userId \in IdsOf(Users)
    /\ Len(TaskList) = 2

\* C16: updateTaskList(id, title) called by an authenticated identity, member
\* of the list or not, changes the title of the list with that id and nothing
\* else (not its members or createdAt, no other list, no to-do, no user) and
\* returns the list as stored afterwards; with an id no list has it creates
\* nothing and returns null.
C16_UpdateTaskList ==
    [][ /\ request'.op = "updateTaskList"
        /\ callerIsUser
        /\ isValid(request'.args.id)
        => /\ response'.error = ""
           /\ Users' = Users /\ ToDo' = ToDo
           /\ Len(TaskList') = Len(TaskList)
           /\ \A i \in 1 .. Len(TaskList) :
                 IF toString(TaskList[i]._id) = request'.args.id
                 THEN /\ TaskList'[i] = [_id |-> TaskList[i]._id,
                                         title |-> request'.args.title,
                                         createdAt |-> TaskList[i].createdAt,
                                         userIds |-> TaskList[i].userIds]
                      /\ response'.data = <<TaskList'[i]>>
                 ELSE TaskList'[i] = TaskList[i]
           /\ request'.args.id \notin IdsOf(TaskList) => response'.data = <<>>
      ]_vars

C16_Witness ==
    /\ returned("updateTaskList")
    /\ response.data # <<>>
    /\ response.data[1].title = "work"
    /\ identity(request.cred)[1]._id \notin Range(response.data[1].userIds)
    /\ Len(TaskList) = 2
    /\ \E l \in Range(TaskList) : l.title = "home"
    /\ ToDo # <<>>

(***************************************************************************)
(* Properties of the deletes (checked under SpecToDos).                    *)
(***************************************************************************)
\* the collection a delete operation removes from
target(op) == IF op = "deleteTaskList" THEN TaskList ELSE ToDo

\* C15: deleteTaskList(id) and deleteToDo(id) called by an authenticated
\* identity answer true, whether a record has the id or not; when none has,
\* the collections stay as they were, so a delete repeated gives the store and
\* the answer of the first.
C15_DeletesIdempotent ==
    [][ /\ request'.op \in {"deleteTaskList", "deleteToDo"}
        /\ callerIsUser
        /\ isValid(request'.args.id)
        => /\ response' = [error |-> "", data |-> <<TRUE>>]
           /\ request'.args.id
                 \notin IdsOf(IF request'.op = "deleteTaskList"
                              THEN TaskList' ELSE ToDo')
           /\ request'.args.id \notin IdsOf(target(request'.op))
                 => UNCHANGED store
           /\ (request = request' /\ response.error = "")
                 => (response' = response /\ UNCHANGED store)
      ]_vars

C15_Witness ==
    /\ returned("deleteToDo")
    /\ response.data = <<TRUE>>
    /\ request.args.id # NoSuchId
    /\ request.args.id \notin IdsOf(ToDo)
    /\ Len(ToDo) = 2
    /\ TaskList = <<>>

(***************************************************************************)
(* Properties of updateToDo (checked under SpecEdits).                     *)
(***************************************************************************)
\* C17: updateToDo(id, content?, isCompleted) sets isCompleted of the to-do
\* with that id to the value given, replaces its content when one is given
\* and keeps it when none is, never changes its taskListId, changes no other
\* to-do, and returns the to-do as stored afterwards.
C17_UpdateToDo ==
    [][ /\ request'.op = "updateToDo"
        /\ callerIsUser
        /\ isValid(request'.args.id)
        => /\ Users' = Users /\ TaskList' = TaskList
           /\ Len(ToDo') = Len(ToDo)
           /\ \A i \in 1 .. Len(ToDo) :
                 IF toString(ToDo[i]._id) = request'.args.id
                 THEN /\ ToDo'[i]._id = ToDo[i]._id
                      /\ ToDo'[i].isCompleted = request'.args.isCompleted
                      /\ ToDo'[i].content =
                            IF request'.args.content.given
                            THEN request'.args.content.value
                            ELSE ToDo[i].content
                      /\ ToDo'[i].taskListId = ToDo[i].taskListId
                      /\ response' = [error |-> "", data |-> <<ToDo'[i]>>]
                 ELSE ToDo'[i] = ToDo[i]
      ]_vars

C17_Witness ==
    /\ returned("updateToDo")
    /\ response.data # <<>>
    /\ ~request.args.content.given
    /\ request.args.isCompleted
    /\ response.data[1].content = <<"eggs">>
    /\ Len(ToDo) = 2
    /\ \E t \in Range(ToDo) : t.content = <<"milk">> /\ ~t.isCompleted

(***************************************************************************)
(* Properties of credentials (checked under SpecCredentials).              *)
(***************************************************************************)
\* C14: a request whose credential fails verification (bad signature,
\* malformed, expired) fails with the verification error, whatever the
\* operation, signUp and signIn included, and no handler runs: no collection
\* changes and no token is issued.  A handler finds no identity, without a
\* request-level error, only when the request has no credential or its
\* verified token names a user that is not stored.  (A step that leaves the
\* clock alone handles a request.)
C14_BadCredentialFails ==
    [][ now' = now
        => /\ (request'.cred # <<>> /\ verify(request'.cred[1]) # "")
                 => /\ response' = [error |-> verify(request'.cred[1]),
                                    data |-> <<>>]
                    /\ UNCHANGED <<store, tokens, nextOid>>
           /\ response'.error = AuthenticationError
                 => \/ request'.cred = <<>>
                    \/ /\ verify(request'.cred[1]) = ""
                       /\ \A u \in Range(Users) :
                             toString(u._id) # request'.cred[1].id
      ]_vars

C14_Witness ==
    /\ request.op = "signUp"
    /\ request.cred \in Held
    /\ response.error = "jwt expired"
    /\ Len(Users) = 1
    /\ TaskList # <<>>
    /\ ToDo # <<>>

(***************************************************************************)
(* Properties of accounts (checked under SpecAuth).                        *)
(***************************************************************************)
\* C20: for every stored user, a signIn with the e-mail and the password the
\* user signed up with succeeds and returns that user and a token for its
\* _id, whatever other sign-ups there were, also with the same e-mail.
C20_SignInAfterSignUp ==
    [][ (request'.op = "signIn" /\ context(request'.cred).error = "")
        => \A u \in Range(Users) :
              (/\ u.email = request'.args.email
               /\ u.password = hashSync(request'.args.password, u.password.salt))
              => /\ response'.error = ""
                 /\ response'.data[1].user = u
                 /\ response'.data[1].token.id = toString(u._id)
      ]_vars

(***************************************************************************)
(* Properties of requests in flight (checked under SpecConcurrent).        *)
(***************************************************************************)
\* the requests of two slots were sent with the same (taskListId, userId) and
\* both stand after their updateOne: each read the list, found the user
\* missing and wrote
raced(c1, c2) ==
    /\ c1 # c2
    /\ calls[c1].pc = "return" /\ calls[c2].pc = "return"
    /\ calls[c1].args = calls[c2].args
    /\ ObjectId(calls[c1].args.userId) \notin Range(calls[c1].taskList[1].userIds)
    /\ ObjectId(calls[c2].args.userId) \notin Range(calls[c2].taskList[1].userIds)

\* how often a list's userIds holds an ObjectId
occurrences(l, oid) == Cardinality({i \in 1 .. Len(l.userIds) : l.userIds[i] = oid})

\* the step is the return of the request of slot c from its last await
returns(c) == calls[c].pc = "return" /\ calls'[c].pc = "free"

\* C12: two addUserToTaskList requests with the same (taskListId, userId)
\* that both read the list before either wrote both pass the member check,
\* both return the list without a Conflict error, and the stored list holds
\* the user's id twice.
C12_RaceDuplicates ==
    [][ /\ \A c1, c2 \in Slots :
              raced(c1, c2)' =>
                 \A l \in Range(TaskList') :
                    toString(l._id) = calls'[c1].args.taskListId
                       => occurrences(l, ObjectId(calls'[c1].args.userId)) >= 2
        /\ \A c \in Slots :
              returns(c) =>
                 /\ response'.error = ""
                 /\ response'.data # <<>>
                 /\ response'.data[1].userIds =
                       Append(calls[c].taskList[1].userIds,
                              ObjectId(calls[c].args.userId))
      ]_vars

C12_Witness ==
    \E c1, c2 \in Slots :
        /\ raced(c1, c2)
        /\ calls[c1].cred # calls[c2].cred
        /\ \E l \in Range(TaskList) :
              /\ toString(l._id) = calls[c1].args.taskListId
              /\ occurrences(l, ObjectId(calls[c1].args.userId)) = 2

\* the context built for the request of slot c holds the user its own token
\* names
contextIsOwn(c) ==
    (calls[c].pc = "user =" /\ calls'[c].pc # "user =")
       => /\ calls'[c].pc = "findOne TaskList"
          /\ calls'[c].user = findOne(Users, ObjectId(calls[c].cred[1].id))

\* C13: requests share no mutable state but the store (no step of a request
\* changes a variable of the process other than the collections), and under
\* every interleaving the user in a request's context is the one its own
\* credential names, never one resolved for another request.
C13_NoSharedState ==
    [][ /\ global_user' = global_user
        /\ \A c \in Slots : contextIsOwn(c)
      ]_vars

\* C19: when addUserToTaskList returns a list, the store holds at that moment
\* a list with that _id whose userIds and title are those of the list
\* returned, whatever deleteTaskList, updateTaskList and addUserToTaskList
\* requests were interleaved with it.
C19_ReturnedListIsStored ==
    [][ \A c \in Slots :
           (returns(c) /\ response'.data # <<>>)
              => \E l \in Range(TaskList') :
                    /\ l._id = response'.data[1]._id
                    /\ l.userIds = response'.data[1].userIds
                    /\ l.title = response'.data[1].title
      ]_vars
====
